---- MODULE Spec2Model ----
(***************************************************************************)
(* A model of lst_prices.py: the pool-list resolver, the delegation-proxy  *)
(* prober (LST detection, rate read), the token metadata reader and the    *)
(* sequential main loop that accumulates one result record per pool.       *)
(*                                                                         *)
(* Python values are modelled as follows.  None is the string "None".      *)
(* A dict is a record; a result dict that lacks a key is a record that     *)
(* lacks the field.  Text obtained from the chain (symbol, name) is a      *)
(* sequence of code points, bytes are a sequence of byte values.  An       *)
(* exception is a result record with ok = FALSE.                           *)
(***************************************************************************)
EXTENDS Integers, Sequences, FiniteSets, TLC

VARIABLES pc, args, pools, results, probe, exitCode, stdout, fnIn, fnOut

vars == <<pc, args, pools, results, probe, exitCode, stdout, fnIn, fnOut>>

mainVars == <<pc, args, pools, results, probe, exitCode, stdout>>

None == "None"

(* Python truthiness of the values that occur: None and "" are falsy. *)
Truthy(v) == v # None /\ v # ""

(* Python's `a or b`: a when a is truthy, else b. *)
Or(a, b) == IF Truthy(a) THEN a ELSE b

----------------------------------------------------------------------------
(* Bounds of the model. *)

MaxItems == 2     \* longest pools-file array explored by SpecPools
MaxPools == 2     \* longest pool list explored by the main loop
B32Len == 2       \* modelled width of a bytes32 value (32 in the ABI)

----------------------------------------------------------------------------
(* Addresses.  The strings the model knows, with the integer each denotes  *)
(* and its checksummed (mixed-case) spelling.  Strings outside the table   *)
(* are not hex addresses.                                                  *)

ZeroAddr == "0x0000"

AddressTable ==
  [a \in {"0xab12", "0xAB12", "0xaB12", "0xcd34", "0xcD34", "0x0000"} |->
     CASE a \in {"0xab12", "0xAB12", "0xaB12"} -> [int |-> 43794, cs |-> "0xaB12"]
       [] a \in {"0xcd34", "0xcD34"}            -> [int |-> 52532, cs |-> "0xcD34"]
       [] OTHER                                  -> [int |-> 0, cs |-> "0x0000"]]

NotAnAddress == "zz"

(* Mutation: the address is validated but its spelling is left as given. *)
to_checksum_AsGiven(addr) ==
  IF addr \in DOMAIN AddressTable
    THEN [ok |-> TRUE, val |-> addr]
    ELSE [ok |-> FALSE, val |-> "invalid address"]

to_checksum(addr) ==
  IF addr \in DOMAIN AddressTable
    THEN [ok |-> TRUE, val |-> AddressTable[addr].cs]
    ELSE [ok |-> FALSE, val |-> "invalid address"]

----------------------------------------------------------------------------
(* load_pools_from_json.  A JSON array is a sequence of items; an item is  *)
(* an object (the six keys the code reads, None when the key is absent or  *)
(* null) or a value that is not an object.                                 *)

PoolLabel(i) == "Pool " \o ToString(i)

NonObject == [isdict |-> FALSE]

Obj(n, t, p, d, dp, a) ==
  [isdict |-> TRUE, name |-> n, title |-> t, proxy |-> p, delegation |-> d,
   delegationProxy |-> dp, address |-> a]

ItemName(item, i) == Or(Or(item.name, item.title), PoolLabel(i))

ItemProxy(item) ==
  Or(Or(Or(item.proxy, item.delegation), item.delegationProxy), item.address)

Kept(item) == item.isdict /\ Truthy(ItemProxy(item))

RECURSIVE LoadFrom(_, _)
LoadFrom(data, i) ==
  IF i > Len(data) THEN <<>>
  ELSE IF Kept(data[i])
    THEN <<[name |-> ItemName(data[i], i), proxy |-> ItemProxy(data[i])]>>
           \o LoadFrom(data, i + 1)
    ELSE LoadFrom(data, i + 1)

(* Mutation: default names count the kept entries, not the input entries. *)
RECURSIVE LoadFromKeptIndex(_, _, _)
LoadFromKeptIndex(data, i, k) ==
  IF i > Len(data) THEN <<>>
  ELSE IF Kept(data[i])
    THEN <<[name |-> ItemName(data[i], k), proxy |-> ItemProxy(data[i])]>>
           \o LoadFromKeptIndex(data, i + 1, k + 1)
    ELSE LoadFromKeptIndex(data, i + 1, k)

load_pools_kept_index(data) == LoadFromKeptIndex(data, 1, 1)

load_pools_from_json(data) == LoadFrom(data, 1)

NameParts == {<<None, None>>, <<"Alpha", None>>, <<"", "Beta">>, <<None, "Beta">>,
              <<"Alpha", "Beta">>, <<"", None>>}

ProxyParts == {<<None, None, None, None>>, <<"", None, None, None>>,
               <<"0xab12", None, None, None>>, <<"", "0xAB12", None, None>>,
               <<None, None, "zz", None>>, <<None, None, None, "0xaB12">>,
               <<"0xab12", None, None, "0xcd34">>, <<None, None, None, "">>,
               <<None, "0xAB12", "zz", None>>}

Items ==
  {NonObject} \cup
  {Obj(n[1], n[2], p[1], p[2], p[3], p[4]) : n \in NameParts, p \in ProxyParts}

----------------------------------------------------------------------------
(* Remote reads.  The outcome of one eth_call is a record: ok = FALSE when *)
(* the call raised (revert, missing method, undecodable return data), else *)
(* val is the decoded value.  An environment gives the outcome of each     *)
(* read a pool's processing can make.                                      *)

AddrFail == [ok |-> FALSE, val |-> ""]
AddrOk(a) == [ok |-> TRUE, val |-> a]
TextFail == [ok |-> FALSE, val |-> <<>>]
TextOk(s) == [ok |-> TRUE, val |-> s]
NumFail == [ok |-> FALSE, val |-> 0]
NumOk(n) == [ok |-> TRUE, val |-> n]
PriceFail == [ok |-> FALSE, val |-> [m |-> 0, z |-> 0]]
PriceOk(r) == [ok |-> TRUE, val |-> r]

Call(m, out) == [m |-> m, out |-> out]

Methods(calls) == [i \in 1..Len(calls) |-> calls[i].m]

AddrInt(a) == AddressTable[a].int

(* detect_lst_address: the loop over ("getLST", "lst"). *)
RECURSIVE DetectFrom(_, _)
DetectFrom(env, methods) ==
  IF methods = <<>> THEN [addr |-> None, calls |-> <<>>]
  ELSE
    LET m    == Head(methods)
        out  == env[m]
        rest == DetectFrom(env, Tail(methods))
        skip == [addr |-> rest.addr, calls |-> <<Call(m, out)>> \o rest.calls]
    IN IF out.ok /\ Truthy(out.val) /\ out.val \in DOMAIN AddressTable
            /\ AddrInt(out.val) # 0 /\ to_checksum(out.val).ok
         THEN [addr |-> to_checksum(out.val).val, calls |-> <<Call(m, out)>>]
         ELSE skip

(* Mutation: the two methods are tried in the other order. *)
DetectMethods_LstFirst == <<"lst", "getLST">>

DetectMethods == <<"getLST", "lst">>

detect_lst_address(env) == DetectFrom(env, DetectMethods)

----------------------------------------------------------------------------
(* fetch_price.  A raw uint256 price is m * 10^z (m not a multiple of 10), *)
(* so that 10^18-scale values fit the model checker's integers.  The rate  *)
(* is the Decimal raw / 10^18: exact here, its exponent brought as close   *)
(* to 0 as the coefficient's trailing zeros allow.                         *)

PriceScale == 18

DigitChar == <<"0", "1", "2", "3", "4", "5", "6", "7", "8", "9">>

RECURSIVE DigitsOf(_)
DigitsOf(n) ==
  IF n < 10 THEN <<DigitChar[n + 1]>>
  ELSE DigitsOf(n \div 10) \o <<DigitChar[(n % 10) + 1]>>

Zeros(n) == [i \in 1..n |-> "0"]

Min(a, b) == IF a < b THEN a ELSE b

DecimalDiv(raw) ==
  IF raw.m = 0 THEN [digits |-> <<"0">>, exp |-> 0]
  ELSE LET k == Min(raw.z, PriceScale)
       IN [digits |-> DigitsOf(raw.m) \o Zeros(raw.z - k), exp |-> k - PriceScale]

(* str(Decimal): plain notation while exp <= 0 and the number is not       *)
(* smaller than 1e-6, scientific notation otherwise.                       *)
DecimalStr(d) ==
  LET n          == Len(d.digits)
      leftdigits == d.exp + n
      dotplace   == IF d.exp <= 0 /\ leftdigits > -6 THEN leftdigits ELSE 1
      intpart    == IF dotplace <= 0 THEN <<"0">>
                    ELSE IF dotplace >= n THEN d.digits \o Zeros(dotplace - n)
                    ELSE SubSeq(d.digits, 1, dotplace)
      fracpart   == IF dotplace <= 0 THEN <<".">> \o Zeros(-dotplace) \o d.digits
                    ELSE IF dotplace >= n THEN <<>>
                    ELSE <<".">> \o SubSeq(d.digits, dotplace + 1, n)
      e          == leftdigits - dotplace
      exppart    == IF e = 0 THEN <<>>
                    ELSE <<"E", IF e < 0 THEN "-" ELSE "+">>
                           \o DigitsOf(IF e < 0 THEN -e ELSE e)
  IN intpart \o fracpart \o exppart

(* Mutation: a failed read is reported as the rate 0 instead of None. *)
fetch_price_ZeroOnFailure(env) ==
  LET out == env.getPrice
  IN [none |-> FALSE, val |-> DecimalDiv(IF out.ok THEN out.val ELSE [m |-> 0, z |-> 0]),
      calls |-> <<Call("getPrice", out)>>]

fetch_price(env) ==
  LET out == env.getPrice
  IN IF out.ok
       THEN [none |-> FALSE, val |-> DecimalDiv(out.val), calls |-> <<Call("getPrice", out)>>]
       ELSE [none |-> TRUE, val |-> DecimalDiv(PriceFail.val),
             calls |-> <<Call("getPrice", out)>>]

----------------------------------------------------------------------------
(* decode_bytes32 and fetch_token_meta. *)

ReplacementChar == 65533

RECURSIVE RStripZeros(_)
RStripZeros(b) ==
  IF b # <<>> /\ b[Len(b)] = 0 THEN RStripZeros(SubSeq(b, 1, Len(b) - 1)) ELSE b

(* UTF-8 decoding with errors="replace", for the bytes of ByteAlphabet: an *)
(* ASCII byte is its code point, the byte 0xFF (valid nowhere in UTF-8) is *)
(* replaced by U+FFFD.                                                     *)
Utf8Decode(b) == [i \in 1..Len(b) |-> IF b[i] < 128 THEN b[i] ELSE ReplacementChar]

decode_bytes32(b) == Utf8Decode(RStripZeros(b))

DefaultSymbol == <<76, 83, 84>>     \* "LST"
DefaultDecimals == 18

Unset == [none |-> TRUE, val |-> <<>>]
Got(v) == [none |-> FALSE, val |-> v]

(* The value a variable holds after `try: x = read() except: pass`. *)
TryRead(out) == IF out.ok THEN Got(out.val) ELSE Unset

(* Mutation: an empty string is retried under the bytes32 ABI as well. *)
NeedsBytes32_OrEmpty(field) == field.none \/ field.val = <<>>

NeedsBytes32(field) == field.none

fetch_token_meta(env) ==
  LET symbol1 == TryRead(env.symbol)
      name1   == TryRead(env.name)
      dec1    == IF env.decimals.ok THEN [none |-> FALSE, val |-> env.decimals.val]
                 ELSE [none |-> TRUE, val |-> 0]
      calls1  == <<Call("symbol", env.symbol), Call("name", env.name),
                   Call("decimals", env.decimals)>>
      retryS  == NeedsBytes32(symbol1)
      retryN  == NeedsBytes32(name1)
      symbol2 == IF retryS /\ env.symbol32.ok
                   THEN Got(decode_bytes32(env.symbol32.val)) ELSE symbol1
      name2   == IF retryN /\ env.name32.ok
                   THEN Got(decode_bytes32(env.name32.val)) ELSE name1
      calls2  == (IF retryS THEN <<Call("symbol32", env.symbol32)>> ELSE <<>>)
                 \o (IF retryN THEN <<Call("name32", env.name32)>> ELSE <<>>)
  IN [symbol   |-> IF symbol2.none \/ symbol2.val = <<>> THEN DefaultSymbol
                   ELSE symbol2.val,
      name     |-> IF name2.none THEN <<>> ELSE name2.val,
      decimals |-> IF dec1.none THEN DefaultDecimals ELSE dec1.val,
      calls    |-> calls1 \o calls2]

----------------------------------------------------------------------------
(* fetch_one: the record of one pool, or the exception it raises. *)

Returned(info, calls) == [raised |-> FALSE, info |-> info, calls |-> calls]
Raised(msg, calls) == [raised |-> TRUE, info |-> [error |-> msg], calls |-> calls]

(* Mutation: the record of a pool without LST is given default metadata. *)
NoLstRecord_WithDefaults(pool_name, proxy_cs) ==
  [pool |-> pool_name, proxy |-> proxy_cs, lst |-> None,
   symbol |-> DefaultSymbol, decimals |-> DefaultDecimals,
   type |-> "non-liquid-or-unknown", error |-> "No LST detected"]

NoLstRecord(pool_name, proxy_cs) ==
  [pool |-> pool_name, proxy |-> proxy_cs, lst |-> None,
   type |-> "non-liquid-or-unknown", error |-> "No LST detected"]

(* Mutation: the record of a failed getPrice() carries a rate field too. *)
PriceFailedRecord_WithRate(pool_name, proxy_cs, lst_addr, meta) ==
  [pool |-> pool_name, proxy |-> proxy_cs, lst |-> lst_addr,
   symbol |-> meta.symbol, decimals |-> meta.decimals, error |-> "getPrice failed",
   rate_zil_per_lst |-> <<"N", "o", "n", "e">>]

PriceFailedRecord(pool_name, proxy_cs, lst_addr, meta) ==
  [pool |-> pool_name, proxy |-> proxy_cs, lst |-> lst_addr,
   symbol |-> meta.symbol, decimals |-> meta.decimals, error |-> "getPrice failed"]

RateRecord(pool_name, proxy_cs, lst_addr, meta, rate) ==
  [pool |-> pool_name, proxy |-> proxy_cs, lst |-> lst_addr,
   symbol |-> meta.symbol, decimals |-> meta.decimals,
   rate_zil_per_lst |-> DecimalStr(rate)]

(* Mutation: a failed getPrice() raises out of fetch_one before the token *)
(* metadata is read.                                                     *)
fetch_one_PriceRaises(env, pool_name, proxy_addr) ==
  LET cs == to_checksum(proxy_addr)
      det == detect_lst_address(env)
      price == fetch_price(env)
      meta == fetch_token_meta(env)
  IN IF ~cs.ok THEN Raised(cs.val, <<>>)
     ELSE IF ~Truthy(det.addr)
       THEN Returned(NoLstRecord(pool_name, cs.val), det.calls)
     ELSE IF price.none
       THEN Raised("getPrice failed", det.calls \o price.calls)
     ELSE Returned(RateRecord(pool_name, cs.val, det.addr, meta, price.val),
                   det.calls \o price.calls \o meta.calls)

fetch_one(env, pool_name, proxy_addr) ==
  LET cs == to_checksum(proxy_addr)
      det == detect_lst_address(env)
      price == fetch_price(env)
      meta == fetch_token_meta(env)
  IN IF ~cs.ok THEN Raised(cs.val, <<>>)
     ELSE IF ~Truthy(det.addr)
       THEN Returned(NoLstRecord(pool_name, cs.val), det.calls)
     ELSE IF price.none
       THEN Returned(PriceFailedRecord(pool_name, cs.val, det.addr, meta),
                     det.calls \o price.calls \o meta.calls)
     ELSE Returned(RateRecord(pool_name, cs.val, det.addr, meta, price.val),
                   det.calls \o price.calls \o meta.calls)

(* The record main appends for a pool: fetch_one's, or the except branch's. *)
PoolRecord(r, p) ==
  IF r.raised THEN [pool |-> p.name, proxy |-> p.proxy, error |-> r.info.error]
  ELSE r.info

SeqUpTo(S, n) == UNION {[1..k -> S] : k \in 0..n}

Idle == <<>>

MainIdle ==
  /\ pc = "idle"
  /\ args = Idle
  /\ pools = <<>>
  /\ results = <<>>
  /\ probe = <<>>
  /\ exitCode = -1
  /\ stdout = <<>>

InitPools ==
  /\ MainIdle
  /\ fnIn \in SeqUpTo(Items, MaxItems)
  /\ fnOut = [done |-> FALSE]

LoadPools ==
  /\ fnOut.done = FALSE
  /\ fnOut' = [done |-> TRUE, pools |-> load_pools_from_json(fnIn)]
  /\ UNCHANGED <<fnIn, mainVars>>

SpecPools == InitPools /\ [][LoadPools]_vars

----------------------------------------------------------------------------
(* The metadata reader on its own: every combination of read outcomes.     *)

ByteAlphabet == {0, 119, 255}

Bytes32Values == [1..B32Len -> ByteAlphabet]

TextOutcomes == {TextFail, TextOk(<<>>), TextOk(<<115, 116>>)}
NumOutcomes == {NumFail, NumOk(6), NumOk(18)}
Bytes32Outcomes == {TextFail} \cup {TextOk(b) : b \in Bytes32Values}

MetaEnvs ==
  [symbol : TextOutcomes, name : TextOutcomes, decimals : NumOutcomes,
   symbol32 : Bytes32Outcomes, name32 : Bytes32Outcomes]

InitMeta ==
  /\ MainIdle
  /\ fnIn \in MetaEnvs
  /\ fnOut = [done |-> FALSE]

FetchMeta ==
  /\ fnOut.done = FALSE
  /\ fnOut' = [done |-> TRUE, meta |-> fetch_token_meta(fnIn)]
  /\ UNCHANGED <<fnIn, mainVars>>

SpecMeta == InitMeta /\ [][FetchMeta]_vars

----------------------------------------------------------------------------
(* main.  pc follows the program text: "start" (argument parsing and the   *)
(* RPC connection), "resolve" (the pool list), "loop" (one pool per step), *)
(* "done" (the process has exited).                                        *)

Modes == {"file", "proxies", "auto"}

(* A path on disk: not a file, a file that open() or json.load() rejects,  *)
(* or a file holding a JSON array.                                         *)
Missing == [kind |-> "missing", data |-> <<>>]
Unreadable == [kind |-> "unreadable", data |-> <<>>]
JsonFile(data) == [kind |-> "json", data |-> data]

MainItems ==
  {NonObject,
   Obj(None, None, "0xab12", None, None, None),
   Obj("Alpha", None, None, None, "zz", None),
   Obj(None, "Beta", None, None, None, "")}

ProxyArgs == {"0xab12", "zz"}

AddrOutcomes == {AddrFail, AddrOk(ZeroAddr), AddrOk("0xcD34")}
PriceOutcomes == {PriceFail, PriceOk([m |-> 15, z |-> 17]), PriceOk([m |-> 1, z |-> 0])}

(* The token contracts the main loop meets (SpecMeta explores every        *)
(* combination of read outcomes): a string-ABI token, a bytes32-ABI token, *)
(* tokens lacking decimals() or name(), and a contract that is no token.   *)
PaddedW == [i \in 1..B32Len |-> IF i = 1 THEN 119 ELSE 0]

Token(s, n, d, s32, n32) ==
  [symbol |-> s, name |-> n, decimals |-> d, symbol32 |-> s32, name32 |-> n32]

Tokens ==
  {Token(TextOk(<<115, 116>>), TextOk(<<115, 116>>), NumOk(6), TextFail, TextFail),
   Token(TextFail, TextFail, NumOk(6), TextOk(PaddedW), TextOk(PaddedW)),
   Token(TextOk(<<115, 116>>), TextOk(<<115, 116>>), NumFail, TextFail, TextFail),
   Token(TextOk(<<115, 116>>), TextFail, NumOk(6), TextFail, TextFail),
   Token(TextOk(<<>>), TextOk(<<>>), NumOk(6), TextOk(PaddedW), TextOk(PaddedW)),
   Token(TextFail, TextFail, NumFail, TextFail, TextFail)}

Envs ==
  {[getLST |-> g, lst |-> l, getPrice |-> p, symbol |-> t.symbol, name |-> t.name,
    decimals |-> t.decimals, symbol32 |-> t.symbol32, name32 |-> t.name32] :
     g \in AddrOutcomes, l \in AddrOutcomes, p \in PriceOutcomes, t \in Tokens}

Init ==
  /\ pc = "start"
  /\ args = Idle
  /\ pools = <<>>
  /\ results = <<>>
  /\ probe = <<>>
  /\ exitCode = -1
  /\ stdout = <<>>
  /\ fnIn = Idle
  /\ fnOut = Idle

Exit(code) ==
  /\ pc' = "done"
  /\ exitCode' = code

(* argparse, then w3.is_connected(): exit code 2 when the RPC is down. *)
Connect ==
  /\ pc = "start"
  /\ \E mode \in Modes, json \in BOOLEAN, connected \in BOOLEAN :
       /\ args' = [mode |-> mode, json |-> json]
       /\ IF connected
            THEN pc' = "resolve" /\ UNCHANGED exitCode
            ELSE Exit(2)
  /\ UNCHANGED <<pools, results, probe, stdout, fnIn, fnOut>>

(* --pools-json: an unreadable or malformed file is an uncaught exception  *)
(* (the interpreter exits with code 1); any list it yields is used.        *)
ResolveFile ==
  /\ pc = "resolve"
  /\ args.mode = "file"
  /\ \E file \in {Unreadable} \cup {JsonFile(d) : d \in SeqUpTo(MainItems, MaxPools)} :
       IF file.kind # "json"
         THEN Exit(1) /\ UNCHANGED pools
         ELSE /\ pools' = load_pools_from_json(file.data)
              /\ pc' = "loop"
              /\ UNCHANGED exitCode
  /\ UNCHANGED <<args, results, probe, stdout, fnIn, fnOut>>

ProxiesPools(proxies) ==
  [i \in 1..Len(proxies) |-> [name |-> PoolLabel(i), proxy |-> proxies[i]]]

(* Positional proxies (the list is non-empty, or this branch is not taken). *)
ResolveProxies ==
  /\ pc = "resolve"
  /\ args.mode = "proxies"
  /\ \E proxies \in SeqUpTo(ProxyArgs, MaxPools) \ {<<>>} :
       pools' = ProxiesPools(proxies)
  /\ pc' = "loop"
  /\ UNCHANGED <<args, results, probe, exitCode, stdout, fnIn, fnOut>>

(* autodiscover_pools: the first candidate that is a file and loads. *)
RECURSIVE autodiscover_pools(_)
autodiscover_pools(candidates) ==
  IF candidates = <<>> THEN <<>>
  ELSE IF Head(candidates).kind # "json"
    THEN autodiscover_pools(Tail(candidates))
    ELSE load_pools_from_json(Head(candidates).data)

NumCandidates == 4

CandidateFiles ==
  {Missing, Unreadable, JsonFile(<<>>),
   JsonFile(<<Obj(None, None, "0xab12", None, None, None)>>),
   JsonFile(<<NonObject, Obj("Alpha", None, None, None, "zz", None)>>)}

NoPools(found) == found = <<>>

ResolveAuto ==
  /\ pc = "resolve"
  /\ args.mode = "auto"
  /\ \E candidates \in [1..NumCandidates -> CandidateFiles] :
       LET found == autodiscover_pools(candidates)
       IN IF NoPools(found)
            THEN Exit(1) /\ UNCHANGED pools
            ELSE /\ pools' = found
                 /\ pc' = "loop"
                 /\ UNCHANGED exitCode
  /\ UNCHANGED <<args, results, probe, stdout, fnIn, fnOut>>

(* Mutation: no try/except around fetch_one, an exception ends the run. *)
ProcessPool_NoCatch ==
  /\ pc = "loop"
  /\ Len(results) < Len(pools)
  /\ \E env \in Envs :
       LET p == pools[Len(results) + 1]
           r == fetch_one(env, p.name, p.proxy)
       IN IF r.raised
            THEN Exit(1) /\ UNCHANGED <<results, probe>>
            ELSE /\ results' = Append(results, r.info)
                 /\ probe' = r.calls
                 /\ UNCHANGED <<pc, exitCode>>
  /\ UNCHANGED <<args, pools, stdout, fnIn, fnOut>>

(* One iteration of `for p in pools`: fetch_one inside try/except.  probe  *)
(* is the sequence of remote reads made for this pool, with their outcomes. *)
ProcessPool ==
  /\ pc = "loop"
  /\ Len(results) < Len(pools)
  /\ \E env \in Envs :
       LET p == pools[Len(results) + 1]
           r == fetch_one(env, p.name, p.proxy)
       IN /\ results' = Append(results, PoolRecord(r, p))
          /\ probe' = r.calls
  /\ UNCHANGED <<pc, args, pools, exitCode, stdout, fnIn, fnOut>>

(* print_table's row for one record (padding and rounding not modelled). *)
TableRow(r) ==
  [pool   |-> r.pool,
   symbol |-> IF "symbol" \in DOMAIN r THEN r.symbol ELSE <<63>>,
   proxy  |-> r.proxy,
   cell   |-> IF "error" \in DOMAIN r /\ "rate_zil_per_lst" \notin DOMAIN r
                THEN [error |-> r.error]
                ELSE [rate |-> IF "rate_zil_per_lst" \in DOMAIN r
                                 THEN r.rate_zil_per_lst ELSE <<"N", "/", "A">>]]

print_table(rs) == [kind |-> "table", rows |-> [i \in 1..Len(rs) |-> TableRow(rs[i])]]

json_dumps(rs) == [kind |-> "json", array |-> rs]

(* After the loop: print the JSON array or the table; the process ends 0. *)
Emit ==
  /\ pc = "loop"
  /\ Len(results) = Len(pools)
  /\ stdout' = IF args.json THEN json_dumps(results) ELSE print_table(results)
  /\ Exit(0)
  /\ UNCHANGED <<args, pools, results, probe, fnIn, fnOut>>

Next == Connect \/ ResolveFile \/ ResolveProxies \/ ResolveAuto \/ ProcessPool \/ Emit

Spec == Init /\ [][Next]_vars

----------------------------------------------------------------------------
(* Properties of the pool-list resolver (SpecPools).                       *)

ProxyKeys == <<"proxy", "delegation", "delegationProxy", "address">>

NonEmpty(v) == v # None /\ v # ""

HasProxyValue(item) ==
  item.isdict /\ \E k \in 1..Len(ProxyKeys) : NonEmpty(item[ProxyKeys[k]])

KeptIndexes(data) == {i \in 1..Len(data) : HasProxyValue(data[i])}

(* The index in data of the j-th kept entry. *)
NthKept(data, j) ==
  CHOOSE i \in KeptIndexes(data) : Cardinality({k \in KeptIndexes(data) : k <= i}) = j

FirstProxyValue(item) ==
  LET k == CHOOSE k \in 1..Len(ProxyKeys) :
             /\ NonEmpty(item[ProxyKeys[k]])
             /\ \A h \in 1..(k - 1) : ~NonEmpty(item[ProxyKeys[h]])
  IN item[ProxyKeys[k]]

ExpectedName(item, i) ==
  IF NonEmpty(item.name) THEN item.name
  ELSE IF NonEmpty(item.title) THEN item.title
  ELSE PoolLabel(i)

(* C9: load_pools_from_json returns exactly the entries that are objects   *)
(* with a non-empty value under proxy / delegation / delegationProxy /     *)
(* address, in input order, each with the first such value as its proxy    *)
(* and with its name, else its title, else "Pool n" where n is the entry's *)
(* 1-based position in the whole input array.                              *)
C9_LoadPoolsSubsequence ==
  fnOut.done =>
    /\ Len(fnOut.pools) = Cardinality(KeptIndexes(fnIn))
    /\ \A j \in 1..Len(fnOut.pools) :
         LET i == NthKept(fnIn, j)
         IN /\ fnOut.pools[j].proxy = FirstProxyValue(fnIn[i])
            /\ fnOut.pools[j].name = ExpectedName(fnIn[i], i)

(* An unnamed entry kept after a skipped one: its label counts the skipped *)
(* entry.                                                                  *)
C9_Witness ==
  /\ fnOut.done
  /\ Len(fnIn) = 2
  /\ ~HasProxyValue(fnIn[1])
  /\ Len(fnOut.pools) = 1
  /\ fnOut.pools[1].name = "Pool 2"
  /\ fnIn[2].proxy = ""
  /\ fnOut.pools[1].proxy = "0xAB12"

----------------------------------------------------------------------------
(* Properties of the metadata reader (SpecMeta).                           *)

(* b with its trailing zero bytes removed, stated without recursion. *)
ZeroTrimmed(b) ==
  LET n == CHOOSE n \in 0..Len(b) :
             /\ \A i \in (n + 1)..Len(b) : b[i] = 0
             /\ n > 0 => b[n] # 0
  IN SubSeq(b, 1, n)

Decoded(b) == Utf8Decode(ZeroTrimmed(b))

Attempted(calls, m) == \E i \in 1..Len(calls) : calls[i].m = m

(* C8 as stated: the bytes32 symbol() read is attempted whenever the       *)
(* string-ABI read fails or returns an empty value.                        *)
C8_RetryOnFailureOrEmpty ==
  fnOut.done =>
    ((~fnIn.symbol.ok \/ fnIn.symbol.val = <<>>)
       => Attempted(fnOut.meta.calls, "symbol32"))

(* C8, amended: the bytes32 symbol() read is attempted exactly when the    *)
(* string-ABI symbol() read raised; then a non-empty zero-trimmed decoding *)
(* of its bytes is the symbol, and "LST" is reported when it raised too or *)
(* decoded to nothing.  A string-ABI read that returns the empty string is *)
(* not retried and reports "LST"; a non-empty one is reported as is.       *)
(* decimals is the value decimals() returned, 18 when it raised, whatever  *)
(* the symbol and name reads did.                                          *)
C8_SymbolFallbackAndDecimals ==
  fnOut.done =>
    LET env  == fnIn
        meta == fnOut.meta
    IN /\ Attempted(meta.calls, "symbol32") <=> ~env.symbol.ok
       /\ ~env.symbol.ok =>
            meta.symbol = IF env.symbol32.ok /\ Decoded(env.symbol32.val) # <<>>
                            THEN Decoded(env.symbol32.val) ELSE DefaultSymbol
       /\ env.symbol.ok =>
            meta.symbol = IF env.symbol.val = <<>> THEN DefaultSymbol ELSE env.symbol.val
       /\ meta.decimals = IF env.decimals.ok THEN env.decimals.val ELSE 18

(* symbol() raises under the string ABI and returns b"w\x00.." under the   *)
(* bytes32 ABI, while name() and decimals() raise.                         *)
C8_Witness ==
  /\ fnOut.done
  /\ ~fnIn.symbol.ok
  /\ fnIn.symbol32.ok
  /\ fnIn.symbol32.val = PaddedW
  /\ ~fnIn.name.ok
  /\ ~fnIn.decimals.ok
  /\ fnOut.meta.symbol = <<119>>
  /\ fnOut.meta.decimals = 18

----------------------------------------------------------------------------
(* Properties of main (Spec).  After a step of the loop, probe holds the   *)
(* reads made for the pool whose record is the last of results.            *)

Has(r, f) == f \in DOMAIN r

Processed == Len(results)
LastRec == results[Len(results)]
LastPool == pools[Len(results)]

(* The last pool's proxy string is an address, so that fetch_one got past *)
(* its normalisation and probed the contract.                             *)
LastProbed == Processed >= 1 /\ LastPool.proxy \in DOMAIN AddressTable

(* fetch_one returned a record for the last pool (it did not raise). *)
LastReturned == LastProbed /\ Has(LastRec, "lst")

NonZeroAddress(c) == c.out.ok /\ c.out.val # ZeroAddr

CallsOf(m) == {i \in 1..Len(probe) : probe[i].m = m}

Failed(m) == \E i \in CallsOf(m) : ~probe[i].out.ok

(* C1: every record carries exactly one of rate_zil_per_lst and error, and *)
(* a record whose lst is null or missing carries an error.                 *)
C1_RateXorError ==
  \A i \in 1..Len(results) :
    LET r == results[i]
    IN /\ Has(r, "rate_zil_per_lst") # Has(r, "error")
       /\ (~Has(r, "lst") \/ r.lst = None) => Has(r, "error")

C1_Witness ==
  /\ pc = "done"
  /\ exitCode = 0
  /\ Len(results) = 2
  /\ ~Has(results[1], "lst")
  /\ Has(results[2], "lst") /\ results[2].lst # None
  /\ Has(results[2], "error")

(* C2: the result list is, record for record and in order, the resolved    *)
(* pool list: a failing pool neither ends the run nor drops, duplicates or *)
(* reorders a record, and what is printed has one entry per pool.          *)
C2_OneRecordPerPool ==
  /\ Len(results) <= Len(pools)
  /\ \A i \in 1..Len(results) : results[i].pool = pools[i].name
  /\ (pc = "done" /\ pools # <<>>) =>
       /\ exitCode = 0
       /\ Len(results) = Len(pools)
       /\ stdout.kind = "json" =>
            /\ args.json
            /\ Len(stdout.array) = Len(pools)
            /\ \A i \in 1..Len(pools) : stdout.array[i].pool = pools[i].name
       /\ stdout.kind = "table" =>
            /\ ~args.json
            /\ Len(stdout.rows) = Len(pools)
            /\ \A i \in 1..Len(pools) : stdout.rows[i].pool = pools[i].name

(* The first pool's proxy cannot be normalised, the second pool has a rate. *)
C2_Witness ==
  /\ pc = "done"
  /\ Len(pools) = 2
  /\ ~to_checksum(pools[1].proxy).ok
  /\ Has(results[1], "error")
  /\ results[2].pool = pools[2].name
  /\ Has(results[2], "rate_zil_per_lst")

(* C3: getLST() is read first; lst() is read exactly when getLST() raised  *)
(* or returned the zero address; the detected address is the first         *)
(* non-zero one in that order, and there is none only when both reads      *)
(* raised or returned zero.                                                *)
C3_DetectionOrder ==
  LastProbed =>
    /\ Has(LastRec, "lst")
    /\ Len(probe) >= 1
    /\ probe[1].m = "getLST"
    /\ CallsOf("getLST") = {1}
    /\ CallsOf("lst") = IF NonZeroAddress(probe[1]) THEN {} ELSE {2}
    /\ LastRec.lst = IF NonZeroAddress(probe[1]) THEN probe[1].out.val
                     ELSE IF NonZeroAddress(probe[2]) THEN probe[2].out.val
                     ELSE None

(* getLST() reverts and lst() returns a non-zero address. *)
C3_Witness ==
  /\ LastReturned
  /\ Len(probe) >= 2
  /\ probe[1].m = "getLST" /\ ~probe[1].out.ok
  /\ probe[2].m = "lst" /\ probe[2].out.val = "0xcD34"
  /\ LastRec.lst = "0xcD34"

NoLstDetected ==
  /\ LastProbed
  /\ \A i \in CallsOf("getLST") \cup CallsOf("lst") : ~NonZeroAddress(probe[i])

(* C4: when neither getLST() nor lst() gives a non-zero address, no other  *)
(* read is made for the pool and its record has lst null, an error, and    *)
(* no rate_zil_per_lst, symbol or decimals.                                *)
C4_NoLstNoFurtherReads ==
  NoLstDetected =>
    /\ Methods(probe) = <<"getLST", "lst">>
    /\ Has(LastRec, "lst")
    /\ LastRec.lst = None
    /\ Has(LastRec, "error")
    /\ ~Has(LastRec, "rate_zil_per_lst")
    /\ ~Has(LastRec, "symbol")
    /\ ~Has(LastRec, "decimals")

(* getLST() returns the zero address and lst() reverts. *)
C4_Witness ==
  /\ NoLstDetected
  /\ Len(probe) = 2
  /\ probe[1].out.ok /\ probe[1].out.val = ZeroAddr
  /\ ~probe[2].out.ok
  /\ LastRec.error = "No LST detected"

OutcomeOf(m) == probe[CHOOSE i \in CallsOf(m) : TRUE].out

ExpectedSymbol ==
  IF OutcomeOf("symbol").ok
    THEN IF OutcomeOf("symbol").val = <<>> THEN DefaultSymbol ELSE OutcomeOf("symbol").val
    ELSE IF CallsOf("symbol32") # {} /\ OutcomeOf("symbol32").ok
              /\ Decoded(OutcomeOf("symbol32").val) # <<>>
           THEN Decoded(OutcomeOf("symbol32").val)
           ELSE DefaultSymbol

ExpectedDecimals ==
  IF OutcomeOf("decimals").ok THEN OutcomeOf("decimals").val ELSE 18

DetectedAddress ==
  probe[CHOOSE i \in CallsOf("getLST") \cup CallsOf("lst") : NonZeroAddress(probe[i])].out.val

(* C5: when getPrice() raises for a pool with a detected LST, symbol(),    *)
(* name() and decimals() are still read after it, the record carries error *)
(* "getPrice failed" with the detected lst, the symbol and decimals read   *)
(* (or their defaults) and no rate, and the run goes on: the loop is still *)
(* running or the process ended with code 0 and every pool recorded.       *)
C5_PriceFailureIsPerPool ==
  (LastProbed /\ Failed("getPrice")) =>
    LET k == CHOOSE i \in CallsOf("getPrice") : TRUE
    IN /\ Len(probe) >= k + 3
       /\ SubSeq(Methods(probe), k + 1, k + 3) = <<"symbol", "name", "decimals">>
       /\ Has(LastRec, "lst") /\ Has(LastRec, "symbol") /\ Has(LastRec, "decimals")
       /\ Has(LastRec, "error")
       /\ LastRec.error = "getPrice failed"
       /\ LastRec.lst = DetectedAddress
       /\ LastRec.symbol = ExpectedSymbol
       /\ LastRec.decimals = ExpectedDecimals
       /\ ~Has(LastRec, "rate_zil_per_lst")
       /\ \/ pc = "loop" /\ (Processed < Len(pools) => ENABLED ProcessPool)
          \/ pc = "done" /\ exitCode = 0 /\ Processed = Len(pools)

(* getPrice() raised for the first of two pools and the second has a rate. *)
C5_Witness ==
  /\ pc = "done"
  /\ Len(results) = 2
  /\ Has(results[1], "error") /\ results[1].error = "getPrice failed"
  /\ results[1].symbol = <<119>>
  /\ results[1].decimals = 6
  /\ Has(results[2], "rate_zil_per_lst")

(* C6: once the RPC connection is up (exit code 2 otherwise), a run that   *)
(* resolves no pools is fatal whichever source was used: it ends with code *)
(* 1 and prints nothing, so code 0 is only reached with a non-empty list.  *)
C6_NoPoolsIsFatal ==
  (pc = "done" /\ pools = <<>> /\ exitCode # 2) => (exitCode = 1 /\ stdout = <<>>)

AnyReadFailed == \E i \in 1..Len(probe) : ~probe[i].out.ok

(* C7 as stated: a pool for which any read failed has an error in its      *)
(* record.                                                                 *)
C7_AnyFailedReadGivesError ==
  (Processed >= 1 /\ AnyReadFailed) => Has(LastRec, "error")

(* C7, amended: a pool's record carries an error string exactly when its   *)
(* proxy cannot be normalised, LST detection yields no address (getLST()   *)
(* and lst() both raised or returned zero) or getPrice() raised.  A failed *)
(* getLST() made good by lst(), and failed symbol(), name() or decimals()  *)
(* reads, fall back to the other read or the default without an error.     *)
C7_ErrorIffPoolLevelFailure ==
  Processed >= 1 =>
    (Has(LastRec, "error") <=>
       \/ ~to_checksum(LastPool.proxy).ok
       \/ NoLstDetected
       \/ Failed("getPrice"))

(* getLST() and every metadata read raised, yet lst() and getPrice()       *)
(* answered: the record has a rate, the default symbol and no error.       *)
C7_Witness ==
  /\ LastReturned
  /\ Failed("getLST") /\ Failed("symbol") /\ Failed("symbol32")
  /\ Failed("name") /\ Failed("decimals")
  /\ ~Failed("getPrice")
  /\ Has(LastRec, "rate_zil_per_lst")
  /\ LastRec.symbol = DefaultSymbol
  /\ ~Has(LastRec, "error")

IsChecksummed(a) == a \in DOMAIN AddressTable /\ AddressTable[a].cs = a

(* C10 as stated: every record's proxy is a checksummed address. *)
C10_ProxyAlwaysChecksummed ==
  \A i \in 1..Len(results) : IsChecksummed(results[i].proxy)

(* C10, amended: the record of a pool whose proxy string is an address     *)
(* holds its checksummed form; the record of a pool whose proxy string     *)
(* cannot be normalised holds that string as supplied, with an error.      *)
C10_ProxyChecksummedWhenNormalisable ==
  \A i \in 1..Len(results) :
    IF pools[i].proxy \in DOMAIN AddressTable
      THEN /\ IsChecksummed(results[i].proxy)
           /\ AddressTable[results[i].proxy].int = AddressTable[pools[i].proxy].int
      ELSE /\ results[i].proxy = pools[i].proxy
           /\ Has(results[i], "error")

(* A lower-case proxy is recorded in mixed case, next to a pool whose      *)
(* proxy is no address.                                                    *)
C10_Witness ==
  /\ Len(results) = 2
  /\ pools[1].proxy = "0xab12" /\ results[1].proxy = "0xaB12"
  /\ pools[2].proxy = NotAnAddress /\ results[2].proxy = NotAnAddress

====
